---- MODULE Spec2Model ----
(***************************************************************************)
(* Device Counter (src/app.py): classification of device names, processing *)
(* of one sheet (header detection, column roles, aggregation per customer) *)
(* and the script that runs two passes over an uploaded workbook.          *)
(*                                                                         *)
(* Text is a sequence of one-character strings.  A cell of a sheet is a    *)
(* record [k, s, n]: k = "str" (text s), "num" (number n) or "nan" (empty  *)
(* cell, pandas NaN).  The empty text '' the code writes is Str(<<>>).     *)
(* Python's None is the string "None".                                     *)
(***************************************************************************)
EXTENDS Integers, Sequences, FiniteSets, TLC

VARIABLES
    pc,                       \* position of the script (src/app.py:198-274)
    workbook,                 \* xls: the uploaded sheets, <<[name, df]>>
    sheet_i,                  \* index of the sheet the running loop is at
    processed_sheets,         \* processed_sheets, in workbook order
    first_pass_sheets,        \* processed_sheets as the first pass left it
    unknown_devices_set,      \* unknown_devices_set
    unknown_device_mappings,  \* the global dict, a set of [key, val]
    submitted,                \* st.form_submit_button's value in this run
    warnings,                 \* what st.warning has shown
    cdev,                     \* classifier runs: the device value
    cvar,                     \* classifier runs: a respelling of cdev
    edits,                    \* classifier runs: respelling steps taken
    cres                      \* classifier runs: the four results

vars == <<pc, workbook, sheet_i, processed_sheets, first_pass_sheets,
          unknown_devices_set, unknown_device_mappings, submitted, warnings,
          cdev, cvar, edits, cres>>

scriptVars == <<workbook, sheet_i, processed_sheets, first_pass_sheets,
                unknown_devices_set, submitted, warnings>>

classVars == <<cdev, cvar, edits, cres>>

-----------------------------------------------------------------------------
(* Bounds *)

MaxRows == 4
MaxEdits == 2
MaxTokens == 2

-----------------------------------------------------------------------------
(* Text *)

LowerOf == [A |-> "a", B |-> "b", C |-> "c", D |-> "d", E |-> "e", F |-> "f",
            G |-> "g", H |-> "h", I |-> "i", J |-> "j", K |-> "k", L |-> "l",
            M |-> "m", N |-> "n", O |-> "o", P |-> "p", Q |-> "q", R |-> "r",
            S |-> "s", T |-> "t", U |-> "u", V |-> "v", W |-> "w", X |-> "x",
            Y |-> "y", Z |-> "z"]

UpperOf == [a |-> "A", b |-> "B", c |-> "C", d |-> "D", e |-> "E", f |-> "F",
            g |-> "G", h |-> "H", i |-> "I", j |-> "J", k |-> "K", l |-> "L",
            m |-> "M", n |-> "N", o |-> "O", p |-> "P", q |-> "Q", r |-> "R",
            s |-> "S", t |-> "T", u |-> "U", v |-> "V", w |-> "W", x |-> "X",
            y |-> "Y", z |-> "Z"]

Digits == <<"0", "1", "2", "3", "4", "5", "6", "7", "8", "9">>

Whitespace == {" ", "\t", "\n"}

IsDigit(c) == \E i \in 1..10 : Digits[i] = c

DigitValue(c) == (CHOOSE i \in 1..10 : Digits[i] = c) - 1

IsWordChar(c) == c \in DOMAIN LowerOf \/ c \in DOMAIN UpperOf \/ IsDigit(c) \/ c = "_"

\* a sequence given as a function on 1..n, as the tuple of its values
seq(f, n) == SubSeq(f, 1, n)

\* str.lower()
lower(s) ==
    seq([i \in 1..Len(s) |-> IF s[i] \in DOMAIN LowerOf THEN LowerOf[s[i]] ELSE s[i]], Len(s))

\* str.strip()
strip(s) ==
    LET keep == {i \in 1..Len(s) : s[i] \notin Whitespace}
    IN  IF keep = {} THEN <<>>
        ELSE SubSeq(s, CHOOSE i \in keep : \A j \in keep : i <= j,
                       CHOOSE i \in keep : \A j \in keep : j <= i)

\* str.replace(c, '') for a single character c
remove(s, c) == SelectSeq(s, LAMBDA x : x # c)

\* t in s
contains(s, t) == \E i \in 0..(Len(s) - Len(t)) : SubSeq(s, i + 1, i + Len(t)) = t

\* s.startswith(t)
startswith(s, t) == Len(t) <= Len(s) /\ SubSeq(s, 1, Len(t)) = t

\* re.search(r'\bword\b', s): an occurrence of word with a word boundary on
\* both sides (word begins and ends with a word character)
search_word(s, t) ==
    \E i \in 0..(Len(s) - Len(t)) :
        /\ SubSeq(s, i + 1, i + Len(t)) = t
        /\ (i = 0 \/ ~IsWordChar(s[i]))
        /\ (i + Len(t) = Len(s) \/ ~IsWordChar(s[i + Len(t) + 1]))

-----------------------------------------------------------------------------
(* Cells *)

Str(s) == [k |-> "str", s |-> s, n |-> 0]
Num(n) == [k |-> "num", s |-> <<>>, n |-> n]
NaN == [k |-> "nan", s |-> <<>>, n |-> 0]
Blank == Str(<<>>)

RECURSIVE NatText(_)
NatText(n) == IF n < 10 THEN <<Digits[n + 1]>>
              ELSE NatText(n \div 10) \o <<Digits[(n % 10) + 1]>>

\* str(value)
str(c) == IF c.k = "str" THEN c.s
          ELSE IF c.k = "nan" THEN <<"n", "a", "n">>
          ELSE IF c.n < 0 THEN <<"-">> \o NatText(-c.n) ELSE NatText(c.n)

RECURSIVE DigitsValue(_)
DigitsValue(s) == IF s = <<>> THEN 0
                  ELSE 10 * DigitsValue(SubSeq(s, 1, Len(s) - 1)) + DigitValue(s[Len(s)])

IsIntLiteral(s) ==
    LET body == IF s # <<>> /\ s[1] \in {"-", "+"} THEN Tail(s) ELSE s
    IN  body # <<>> /\ \A i \in 1..Len(body) : IsDigit(body[i])

\* try: int(qty) except: 0        (src/app.py:119-122)
int_or_zero(c) ==
    IF c.k = "num" THEN c.n
    ELSE IF c.k = "str" /\ IsIntLiteral(strip(c.s))
    THEN LET t == strip(c.s)
         IN  IF t[1] = "-" THEN -DigitsValue(Tail(t))
             ELSE IF t[1] = "+" THEN DigitsValue(Tail(t)) ELSE DigitsValue(t)
    ELSE 0

-----------------------------------------------------------------------------
(* Classification *)

categories == <<"BAC-I", "I-CAB", "I-CAB H", "I-CAB M", "BEAME">>
Categories == {categories[i] : i \in 1..Len(categories)}

kw_beame == <<"b", "e", "a", "m", "e">>
kw_blame == <<"b", "l", "a", "m", "e">>
kw_baci == <<"b", "a", "c", "i">>
kw_bai03 == <<"b", "a", "i", "0", "3">>
kw_icabm == <<"i", "c", "a", "b", "m">>
kw_icabh == <<"i", "c", "a", "b", "h">>
kw_combo == <<"c", "o", "m", "b", "o">>
kw_icab == <<"i", "c", "a", "b">>

\* normalize with the underscores left in
normalize_keeps_underscore(s) == remove(remove(lower(strip(s)), "-"), " ")

\* device.strip().lower().replace('-', '').replace('_', '').replace(' ', '')
normalize(s) == remove(remove(remove(lower(strip(s)), "-"), "_"), " ")

\* classify_device_type with the general I-CAB test ahead of the I-CAB M and
\* I-CAB H tests
classify_device_type_icab_first(device) ==
    IF device.k # "str" THEN "None"
    ELSE LET norm == normalize(device.s)
         IN  IF contains(norm, kw_beame) \/ contains(norm, kw_blame) THEN "BEAME"
             ELSE IF contains(norm, kw_baci) \/ contains(norm, kw_bai03) THEN "BAC-I"
             ELSE IF contains(norm, kw_icab) THEN "I-CAB"
             ELSE IF search_word(norm, kw_icabm) \/ contains(norm, kw_icabm) THEN "I-CAB M"
             ELSE IF search_word(norm, kw_icabh) \/ contains(norm, kw_icabh) THEN "I-CAB H"
             ELSE IF contains(norm, kw_combo) /\ ~contains(norm, kw_baci) THEN "I-CAB"
             ELSE "None"

classify_device_type(device) ==
    IF device.k # "str" THEN "None"
    ELSE LET norm == normalize(device.s)
         IN  IF contains(norm, kw_beame) \/ contains(norm, kw_blame) THEN "BEAME"
             ELSE IF contains(norm, kw_baci) \/ contains(norm, kw_bai03) THEN "BAC-I"
             ELSE IF search_word(norm, kw_icabm) \/ contains(norm, kw_icabm) THEN "I-CAB M"
             ELSE IF search_word(norm, kw_icabh) \/ contains(norm, kw_icabh) THEN "I-CAB H"
             ELSE IF contains(norm, kw_combo) /\ ~contains(norm, kw_baci) THEN "I-CAB"
             ELSE IF contains(norm, kw_icab) THEN "I-CAB"
             ELSE "None"

\* the dict unknown_device_mappings as a set of [key, val], one per key
has_key(m, key) == \E e \in m : e.key = key
get(m, key) == (CHOOSE e \in m : e.key = key).val
put(m, key, val) == {e \in m : e.key # key} \cup {[key |-> key, val |-> val]}

override_key(device) == strip(device.s)

classify_device_type_with_overrides(m, device) ==
    IF device.k # "str" THEN "None"
    ELSE IF has_key(m, override_key(device)) THEN get(m, override_key(device))
    ELSE classify_device_type(device)

-----------------------------------------------------------------------------
(* Sheets: df = [cols |-> labels (cells), rows |-> rows of cells] *)

t_customer == <<"c", "u", "s", "t", "o", "m", "e", "r">>
t_device == <<"d", "e", "v", "i", "c", "e">>
t_qty == <<"q", "t", "y">>
t_nan == <<"n", "a", "n">>
t_unnamed == <<"u", "n", "n", "a", "m", "e", "d">>
t_NEW_QTY == <<"N", "E", "W", " ", "Q", "T", "Y">>
t_maintenance == <<"d", "e", "/", "r", "e", "/", "m", "a", "i", "n", "t", "e", "n", "a", "n", "c", "e">>

\* the column label of a category
cat_label(cat) ==
    CASE cat = "BAC-I" -> <<"B", "A", "C", "-", "I">>
      [] cat = "I-CAB" -> <<"I", "-", "C", "A", "B">>
      [] cat = "I-CAB H" -> <<"I", "-", "C", "A", "B", " ", "H">>
      [] cat = "I-CAB M" -> <<"I", "-", "C", "A", "B", " ", "M">>
      [] cat = "BEAME" -> <<"B", "E", "A", "M", "E">>

NoDf == [cols |-> <<>>, rows |-> <<>>]

nrows(df) == Len(df.rows)
ncols(df) == Len(df.cols)

\* df[label] of a label the frame has: the first column so labelled
col_index(df, label) ==
    CHOOSE j \in 1..ncols(df) : df.cols[j] = label /\ \A i \in 1..(j - 1) : df.cols[i] # label

has_col(df, label) == \E j \in 1..ncols(df) : df.cols[j] = label

\* df.at[i, label]
at(df, i, label) == df.rows[i][col_index(df, label)]

column(df, label) == seq([i \in 1..nrows(df) |-> at(df, i, label)], nrows(df))

\* df[label] = values: replaces the column so labelled, or appends one
set_column(df, label, values) ==
    IF has_col(df, label)
    THEN [df EXCEPT !.rows =
              seq([i \in 1..nrows(df) |->
                      seq([j \in 1..ncols(df) |->
                              IF df.cols[j] = label THEN values[i] ELSE df.rows[i][j]],
                          ncols(df))],
                  nrows(df))]
    ELSE [cols |-> Append(df.cols, label),
          rows |-> seq([i \in 1..nrows(df) |-> Append(df.rows[i], values[i])], nrows(df))]

\* df.loc[:, keep]: the columns whose index is in keep, in order
RECURSIVE kept_indices(_, _, _)
kept_indices(j, n, keep) ==
    IF j > n THEN <<>>
    ELSE (IF j \in keep THEN <<j>> ELSE <<>>) \o kept_indices(j + 1, n, keep)

select_columns(df, keep) ==
    LET idx == kept_indices(1, ncols(df), keep)
    IN  [cols |-> seq([a \in 1..Len(idx) |-> df.cols[idx[a]]], Len(idx)),
         rows |-> seq([i \in 1..nrows(df) |->
                          seq([a \in 1..Len(idx) |-> df.rows[i][idx[a]]], Len(idx))],
                      nrows(df))]

\* df[labels]: the columns so labelled, in the order of labels
project(df, labels) ==
    [cols |-> labels,
     rows |-> seq([i \in 1..nrows(df) |->
                      seq([a \in 1..Len(labels) |-> df.rows[i][col_index(df, labels[a])]],
                          Len(labels))],
                  nrows(df))]

role_word(text) ==
    contains(text, t_customer) \/ contains(text, t_device) \/ contains(text, t_qty)

\* df.iloc[0].astype(str).str.lower().str.contains("customer|device|qty").any()
first_row_is_header(df) ==
    \E j \in 1..ncols(df) : role_word(lower(str(df.rows[1][j])))

\* src/app.py:74-78
with_headers(df) ==
    IF first_row_is_header(df)
    THEN [cols |-> seq([j \in 1..ncols(df) |-> Str(strip(str(df.rows[1][j])))], ncols(df)),
          rows |-> Tail(df.rows)]
    ELSE [cols |-> seq([j \in 1..ncols(df) |-> Str(strip(str(df.cols[j])))], ncols(df)),
          rows |-> df.rows]

\* df.loc[:, ~df.columns.duplicated()]
drop_duplicated(df) ==
    select_columns(df, {j \in 1..ncols(df) : \A i \in 1..(j - 1) : df.cols[i] # df.cols[j]})

\* df.loc[:, ~df.columns.str.lower().str.contains('^nan$|^unnamed')]
drop_unnamed(df) ==
    select_columns(df, {j \in 1..ncols(df) :
        ~(lower(df.cols[j].s) = t_nan \/ startswith(lower(df.cols[j].s), t_unnamed))})

NoCol == Str(<<"N", "o", "n", "e">>)

\* one turn of the loop over df.columns, src/app.py:91-98
col_map_step(map, col) ==
    LET label == lower(strip(col.s))
    IN  IF contains(label, t_customer) THEN [map EXCEPT !.customer = col]
        ELSE IF contains(label, t_device) THEN [map EXCEPT !.device = col]
        ELSE IF contains(label, t_qty) THEN [map EXCEPT !.qty = col]
        ELSE map

RECURSIVE col_map_loop(_, _, _)
col_map_loop(cols, j, map) ==
    IF j > Len(cols) THEN map
    ELSE col_map_loop(cols, j + 1, col_map_step(map, cols[j]))

find_columns(df) ==
    col_map_loop(df.cols, 1, [customer |-> NoCol, device |-> NoCol, qty |-> NoCol])

\* all(col_map.values()): a label is falsy when it is None or ''
all_found(map) ==
    /\ map.customer # NoCol /\ map.customer # Blank
    /\ map.device # NoCol /\ map.device # Blank
    /\ map.qty # NoCol /\ map.qty # Blank

\* Series.ffill()
RECURSIVE ffill(_)
ffill(values) ==
    IF Len(values) = 0 THEN <<>>
    ELSE LET before == ffill(SubSeq(values, 1, Len(values) - 1))
             last == values[Len(values)]
         IN  Append(before, IF last = NaN /\ Len(before) > 0 THEN before[Len(before)] ELSE last)

-----------------------------------------------------------------------------
(* process_flexible_sheet *)

\* classify_func(device): the function handed to process_flexible_sheet
classify_func(func, m, device) ==
    IF func = "classify_device_type_with_overrides"
    THEN classify_device_type_with_overrides(m, device)
    ELSE classify_device_type(device)

RECURSIVE sum(_)
sum(ns) == IF Len(ns) = 0 THEN 0 ELSE ns[1] + sum(Tail(ns))

blanks(df) == seq([i \in 1..nrows(df) |-> Blank], nrows(df))

RECURSIVE add_category_columns(_, _)
add_category_columns(df, c) ==
    IF c > Len(categories) THEN df
    ELSE add_category_columns(set_column(df, Str(cat_label(categories[c])), blanks(df)), c + 1)

\* df.groupby(label) makes one group per value of the column, NaN dropped;
\* these are the rows that are group.index[0] of some group
first_rows(df, label) ==
    {i \in 1..nrows(df) :
        at(df, i, label) # NaN /\ \A j \in 1..(i - 1) : at(df, j, label) # at(df, i, label)}

\* per row of the frame: category = classify_func(device), and qty after
\* try: int(qty) except: 0        (src/app.py:116-124)
row_categories(df, map, func, m) ==
    seq([i \in 1..nrows(df) |-> classify_func(func, m, at(df, i, map.device))], nrows(df))

row_qtys(df, map) ==
    seq([i \in 1..nrows(df) |-> int_or_zero(at(df, i, map.qty))], nrows(df))

\* counts[cat] after the loop over the rows of one group, src/app.py:113-126
group_count(customers, cats, qtys, key, cat) ==
    sum([i \in 1..Len(customers) |->
            IF customers[i] = key /\ cats[i] = cat THEN qtys[i] ELSE 0])

\* counts[category] += qty raises KeyError for a category that is no key of counts
counts_key_error(customers, cats) ==
    \E i \in 1..Len(customers) :
        customers[i] # NaN /\ cats[i] \notin Categories \cup {"None", ""}

\* src/app.py:128-131, for every group
RECURSIVE write_totals(_, _, _, _, _)
write_totals(df, customers, cats, qtys, c) ==
    IF c > Len(categories) THEN df
    ELSE LET cat == categories[c]
             label == Str(cat_label(cat))
         IN  write_totals(
                 set_column(df, label,
                     [i \in 1..nrows(df) |->
                         IF customers[i] # NaN /\ \A j \in 1..(i - 1) : customers[j] # customers[i]
                         THEN Num(group_count(customers, cats, qtys, customers[i], cat))
                         ELSE at(df, i, label)]),
                 customers, cats, qtys, c + 1)

\* src/app.py:134-138
blank_customers(df, grouped, map) ==
    LET firsts == first_rows(grouped, map.customer)
    IN  set_column(df, map.customer,
            [i \in 1..nrows(df) |->
                IF at(grouped, i, map.customer) # NaN /\ i \notin firsts THEN Blank
                ELSE at(df, i, map.customer)])

\* src/app.py:141-151
add_new_qty(df, grouped, map) ==
    LET firsts == first_rows(grouped, map.customer)
        with_col == set_column(df, Str(t_NEW_QTY), blanks(df))
        total(i) == sum([c \in 1..Len(categories) |->
                            int_or_zero(at(with_col, i, Str(cat_label(categories[c]))))])
    IN  set_column(with_col, Str(t_NEW_QTY),
            [i \in 1..nrows(df) |-> IF i \in firsts THEN Num(total(i)) ELSE Blank])

final_order(map) ==
    <<map.customer, map.device, map.qty, Str(t_NEW_QTY),
      Str(cat_label("I-CAB")), Str(cat_label("BAC-I")), Str(cat_label("I-CAB H")),
      Str(cat_label("I-CAB M")), Str(cat_label("BEAME"))>>

\* src/app.py:72-82
clean_columns(df) == drop_unnamed(drop_duplicated(with_headers(df)))

\* src/app.py:103-167, for a frame whose three columns were found
aggregate(df, map, func, m) ==
    LET filled == set_column(df, map.customer, ffill(column(df, map.customer)))
        grouped == add_category_columns(filled, 1)
        customers == column(grouped, map.customer)
        cats == row_categories(grouped, map, func, m)
        totals == write_totals(grouped, customers, cats, row_qtys(grouped, map), 1)
        blanked == blank_customers(totals, grouped, map)
        summed == add_new_qty(blanked, grouped, map)
    IN  IF counts_key_error(customers, cats)
        THEN [raised |-> TRUE, df |-> NoDf]
        ELSE [raised |-> FALSE, df |-> project(summed, final_order(map))]

\* the call's outcome: raised (an exception left the function) or the frame returned
process_flexible_sheet(df, func, m) ==
    IF nrows(df) = 0 THEN [raised |-> TRUE, df |-> NoDf]
    ELSE LET clean == clean_columns(df)
             map == find_columns(clean)
         IN  IF ~all_found(map) THEN [raised |-> FALSE, df |-> clean]
             ELSE aggregate(clean, map, func, m)

process_sheet_if_applicable(df, sheet_name, func, m) ==
    IF lower(strip(sheet_name)) = t_maintenance THEN [raised |-> FALSE, df |-> df]
    ELSE process_flexible_sheet(df, func, m)

-----------------------------------------------------------------------------
(* Uploaded workbooks *)

L_CustomerCode == Str(<<"C", "u", "s", "t", "o", "m", "e", "r", " ", "C", "o", "d", "e">>)
L_CustomerName == Str(<<"C", "u", "s", "t", "o", "m", "e", "r", " ", "N", "a", "m", "e">>)
L_CustomerDevice == Str(<<"C", "u", "s", "t", "o", "m", "e", "r", " ", "D", "e", "v", "i", "c", "e">>)
L_Customer_padded == Str(<<" ", "c", "u", "s", "t", "o", "m", "e", "r", " ">>)
L_Device == Str(<<"D", "e", "v", "i", "c", "e">>)
L_DEVICE_TYPE == Str(<<"D", "E", "V", "I", "C", "E", " ", "T", "y", "p", "e">>)
L_Qty == Str(<<"Q", "t", "y">>)
L_QTY_padded == Str(<<"Q", "T", "Y", " ">>)
L_Notes == Str(<<"N", "o", "t", "e", "s">>)
L_Title == Str(<<"T", "i", "t", "l", "e">>)
L_Unnamed1 == Str(<<"U", "n", "n", "a", "m", "e", "d", ":", " ", "1">>)
L_Unnamed2 == Str(<<"U", "n", "n", "a", "m", "e", "d", ":", " ", "2">>)

c_A == Str(<<"A">>)
c_B == Str(<<"B">>)
c_Z == Str(<<"Z">>)
d_baci == Str(<<"B", "A", "C", "-", "I", " ", "1">>)
d_icabh == Str(<<"I", "-", "C", "A", "B", "-", "H">>)
d_wid == Str(<<"w", "i", "d">>)
d_wid_padded == Str(<<" ", "w", "i", "d", " ">>)
d_gz == Str(<<"g", "z">>)

\* a row as <<customer, device, qty>>
RowKinds ==
    { <<c_A, d_baci, Num(5)>>,
      <<NaN, d_icabh, Num(3)>>,
      <<c_B, d_wid_padded, Str(<<" ", "2">>)>>,
      <<c_A, d_wid, Num(-1)>> }

NumericDeviceRow == <<c_A, Num(7), Num(1)>>

RECURSIVE RowSeqs(_)
RowSeqs(n) ==
    IF n = 0 THEN {<<>>}
    ELSE LET shorter == RowSeqs(n - 1)
         IN  shorter \cup {Append(rs, r) : rs \in {x \in shorter : Len(x) = n - 1}, r \in RowKinds}

SmallRowSeqs ==
    { <<>>,
      << <<c_A, d_baci, Num(5)>>, <<NaN, d_icabh, Num(3)>> >>,
      << <<c_B, d_wid_padded, Str(<<" ", "2">>)>>, <<c_A, d_baci, NaN>>, <<c_B, d_gz, Num(4)>> >>,
      << <<NaN, NaN, Str(<<"x">>)>>, <<c_A, d_icabh, Str(<<"x">>)>>, <<NaN, d_wid, Num(2)>> >>,
      << NumericDeviceRow >> }

\* a layout: the labels, the cell of <<customer, device, qty>> each column
\* holds (0: a cell of its own), and whether the labels are the first row of
\* the data under a title line
Layouts ==
    { [cols |-> <<L_CustomerCode, L_Device, L_Qty>>, feed |-> <<1, 2, 3>>, in_data |-> FALSE],
      [cols |-> <<L_CustomerCode, L_Device, L_Qty>>, feed |-> <<1, 2, 3>>, in_data |-> TRUE],
      [cols |-> <<L_Customer_padded, L_DEVICE_TYPE, L_QTY_padded>>, feed |-> <<1, 2, 3>>, in_data |-> FALSE],
      [cols |-> <<L_CustomerCode, L_CustomerName, L_Device, L_Qty>>, feed |-> <<1, 0, 2, 3>>, in_data |-> FALSE],
      [cols |-> <<L_CustomerCode, L_Device, L_DEVICE_TYPE, L_Qty>>, feed |-> <<1, 2, 0, 3>>, in_data |-> FALSE],
      [cols |-> <<L_CustomerDevice, L_Device, L_Qty>>, feed |-> <<1, 2, 3>>, in_data |-> FALSE],
      [cols |-> <<L_CustomerCode, L_Device, L_Notes>>, feed |-> <<1, 2, 3>>, in_data |-> FALSE],
      [cols |-> <<L_CustomerCode, L_Device, NaN>>, feed |-> <<1, 2, 3>>, in_data |-> TRUE],
      [cols |-> <<Num(2024), L_Device, L_Qty>>, feed |-> <<1, 2, 3>>, in_data |-> FALSE] }

StandardLayout ==
    [cols |-> <<L_CustomerCode, L_Device, L_Qty>>, feed |-> <<1, 2, 3>>, in_data |-> FALSE]

\* what pandas labels the columns under a title line
title_labels(n) == [j \in 1..n |-> IF j = 1 THEN L_Title ELSE IF j = 2 THEN L_Unnamed1 ELSE L_Unnamed2]

sheet_row(layout, r) ==
    [j \in 1..Len(layout.cols) |-> IF layout.feed[j] = 0 THEN c_Z ELSE r[layout.feed[j]]]

build_sheet(layout, rs) ==
    LET body == [i \in 1..Len(rs) |-> sheet_row(layout, rs[i])]
    IN  IF layout.in_data
        THEN [cols |-> title_labels(Len(layout.cols)), rows |-> <<layout.cols>> \o body]
        ELSE [cols |-> layout.cols, rows |-> body]

n_S1 == <<"S", "1">>
n_S2 == <<"S", "2">>
n_Maintenance == <<" ", "D", "e", "/", "R", "e", "/", "M", "A", "I", "N", "T", "E", "N", "A", "N", "C", "E">>

SecondSheets ==
    { [name |-> n_S2, df |-> build_sheet(StandardLayout, rs)] :
        rs \in { << <<c_A, d_wid, Num(2)>> >>, << <<c_B, d_baci, Num(1)>> >>, <<>> } }
    \cup
    { [name |-> n_Maintenance, df |-> build_sheet(layout, << <<c_A, d_gz, Num(2)>> >>)] :
        layout \in {l \in Layouts : ~l.in_data} }

Workbooks ==
    { << [name |-> n_S1, df |-> build_sheet(StandardLayout, rs)] >> : rs \in RowSeqs(MaxRows) }
    \cup
    { << [name |-> n_S1, df |-> build_sheet(layout, rs)] >> : layout \in Layouts, rs \in SmallRowSeqs }
    \cup
    { << [name |-> n_S1, df |-> build_sheet(StandardLayout, rs)], second >> :
        rs \in SmallRowSeqs, second \in SecondSheets }

-----------------------------------------------------------------------------
(* The script, src/app.py:198-274 *)

NoResults == [dev |-> "", var |-> "", dev_overrides |-> "", var_overrides |-> ""]

SelectCategory == "Select category"
options == {SelectCategory} \cup Categories

\* for col in df.columns: if 'device' in col.lower(): device_col = col; break
\* (col.lower() raises AttributeError on a label that is no text)
RECURSIVE find_device_col(_, _)
find_device_col(df, j) ==
    IF j > ncols(df) THEN [raised |-> FALSE, found |-> FALSE, col |-> NoCol]
    ELSE IF df.cols[j].k # "str" THEN [raised |-> TRUE, found |-> FALSE, col |-> NoCol]
    ELSE IF contains(lower(df.cols[j].s), t_device)
         THEN [raised |-> FALSE, found |-> df.cols[j] # Blank, col |-> df.cols[j]]
    ELSE find_device_col(df, j + 1)

\* bool(device) of a value dropna() has kept
truthy(device) == IF device.k = "str" THEN device.s # <<>> ELSE device.n # 0

\* the values of df[device_col].dropna().unique() that reach unknown_devices_set.add
unknown_in(df, col) ==
    {d \in {at(df, i, col) : i \in 1..nrows(df)} \ {NaN} :
        truthy(d) /\ classify_device_type(d) = "None"}

\* unknown_devices_set.add(device.strip()); device.strip() raises on a number
added_key(device) == strip(device.s)

\* one turn of the loop of src/app.py:212-225 over one processed sheet
collect_sheet(df) ==
    LET dc == find_device_col(df, 1)
    IN  IF dc.raised THEN [raised |-> TRUE, found |-> {}]
        ELSE IF ~dc.found THEN [raised |-> FALSE, found |-> {}]
        ELSE IF \E d \in unknown_in(df, dc.col) : d.k # "str" THEN [raised |-> TRUE, found |-> {}]
        ELSE [raised |-> FALSE, found |-> {added_key(d) : d \in unknown_in(df, dc.col)}]

\* the comprehension of src/app.py:243 left out
keep_unselected(m) == m

\* src/app.py:243
remove_unselected(m) == {e \in m : e.val # SelectCategory}

ScriptInit ==
    /\ pc = "first_pass"
    /\ workbook \in Workbooks
    /\ sheet_i = 1
    /\ processed_sheets = <<>>
    /\ first_pass_sheets = <<>>
    /\ unknown_devices_set = {}
    /\ unknown_device_mappings = {}
    /\ submitted = FALSE
    /\ warnings = {}

\* src/app.py:205-208, one sheet
FirstPass ==
    /\ pc = "first_pass"
    /\ LET sheet == workbook[sheet_i]
           r == process_sheet_if_applicable(sheet.df, sheet.name, "classify_device_type",
                                            unknown_device_mappings)
           done == Append(processed_sheets, [name |-> sheet.name, df |-> r.df])
       IN  IF r.raised
           THEN /\ pc' = "raised"
                /\ UNCHANGED <<sheet_i, processed_sheets, first_pass_sheets>>
           ELSE /\ processed_sheets' = done
                /\ IF sheet_i = Len(workbook)
                   THEN pc' = "collect" /\ sheet_i' = 1 /\ first_pass_sheets' = done
                   ELSE pc' = pc /\ sheet_i' = sheet_i + 1 /\ UNCHANGED first_pass_sheets
    /\ UNCHANGED <<workbook, unknown_devices_set, unknown_device_mappings, submitted,
                   warnings, classVars>>

\* src/app.py:211-225, one processed sheet
Collect ==
    /\ pc = "collect"
    /\ LET r == collect_sheet(processed_sheets[sheet_i].df)
           all == unknown_devices_set \cup r.found
       IN  IF r.raised
           THEN pc' = "raised" /\ UNCHANGED <<sheet_i, unknown_devices_set>>
           ELSE /\ unknown_devices_set' = all
                /\ IF sheet_i < Len(processed_sheets)
                   THEN pc' = pc /\ sheet_i' = sheet_i + 1
                   ELSE sheet_i' = 1 /\ pc' = IF all # {} THEN "form" ELSE "output"
    /\ UNCHANGED <<workbook, processed_sheets, first_pass_sheets, unknown_device_mappings,
                   submitted, warnings, classVars>>

\* the mappings after the form's two loops, src/app.py:231-237, the operator
\* having chosen choice[device] in each selectbox
form_mappings(m, devices, choice) ==
    {e \in m : e.key \notin devices} \cup {[key |-> d, val |-> choice[d]] : d \in devices}

\* src/app.py:227-239
Form ==
    /\ pc = "form"
    /\ \E choice \in [unknown_devices_set -> options], pressed \in BOOLEAN :
        /\ unknown_device_mappings' = form_mappings(unknown_device_mappings,
                                                    unknown_devices_set, choice)
        /\ submitted' = pressed
        /\ pc' = IF pressed THEN "submitted" ELSE "output"
    /\ warnings' = warnings \cup {[msg |-> "Unknown device types detected", sheet |-> <<>>]}
    /\ UNCHANGED <<workbook, sheet_i, processed_sheets, first_pass_sheets,
                   unknown_devices_set, classVars>>

\* src/app.py:241-246
Submitted ==
    /\ pc = "submitted"
    /\ unknown_device_mappings' = remove_unselected(unknown_device_mappings)
    /\ processed_sheets' = <<>>
    /\ sheet_i' = 1
    /\ pc' = "second_pass"
    /\ UNCHANGED <<workbook, first_pass_sheets, unknown_devices_set, submitted, warnings,
                   classVars>>

\* src/app.py:247-250, one sheet
SecondPass ==
    /\ pc = "second_pass"
    /\ LET sheet == workbook[sheet_i]
           r == process_sheet_if_applicable(sheet.df, sheet.name,
                                            "classify_device_type_with_overrides",
                                            unknown_device_mappings)
       IN  IF r.raised
           THEN pc' = "raised" /\ UNCHANGED <<sheet_i, processed_sheets>>
           ELSE /\ processed_sheets' = Append(processed_sheets, [name |-> sheet.name, df |-> r.df])
                /\ IF sheet_i = Len(workbook)
                   THEN pc' = "output" /\ sheet_i' = 1
                   ELSE pc' = pc /\ sheet_i' = sheet_i + 1
    /\ UNCHANGED <<workbook, first_pass_sheets, unknown_devices_set, unknown_device_mappings,
                   submitted, warnings, classVars>>

\* src/app.py:252-274
Output ==
    /\ pc = "output"
    /\ pc' = "done"
    /\ UNCHANGED <<scriptVars, unknown_device_mappings, classVars>>

Init ==
    /\ ScriptInit
    /\ cdev = NaN /\ cvar = NaN /\ edits = 0 /\ cres = NoResults

Next == FirstPass \/ Collect \/ Form \/ Submitted \/ SecondPass \/ Output

Spec == Init /\ [][Next]_vars

-----------------------------------------------------------------------------
(* The classifiers on their own: a device value, a respelling of it that   *)
(* differs in letter case, hyphens, underscores and spaces only, and the   *)
(* results of both functions on both.                                      *)

e_BACI_Combo_Unit == <<"B", "A", "C", "-", "I", " ", "C", "o", "m", "b", "o", " ", "U", "n", "i", "t">>
e_COMBO_X200 == <<"C", "O", "M", "B", "O", "-", "X", "2", "0", "0">>
e_ICAB_H200 == <<"I", "C", "A", "B", "-", "H", "2", "0", "0">>
e_unknown_widget == <<"u", "n", "k", "n", "o", "w", "n", "-", "w", "i", "d", "g", "e", "t">>

Tokens ==
    { <<"b", "e", "a", "m", "e">>,
      <<"b", "l", "a", "m", "e">>,
      <<"b", "a", "c", "i">>,
      <<"b", "a", "i", "0", "3">>,
      <<"i", "c", "a", "b", "m">>,
      <<"i", "c", "a", "b", "h">>,
      <<"c", "o", "m", "b", "o">>,
      <<"i", "c", "a", "b">>,
      <<"x">>,
      <<"-">>,
      <<" ">>,
      <<"B", "A", "C", "-", "I", " ">>,
      <<"C", "o", "m", "b", "o">>,
      <<"I", "_", "C", "A", "B">>,
      <<"H">>,
      <<"M">> }

RECURSIVE TokenNames(_)
TokenNames(n) ==
    IF n = 0 THEN {<<>>}
    ELSE LET shorter == TokenNames(n - 1)
         IN  shorter \cup {s \o tok : s \in shorter, tok \in Tokens}

RuleInputs ==
    {Str(s) : s \in TokenNames(MaxTokens)
                    \cup {e_BACI_Combo_Unit, e_COMBO_X200, e_ICAB_H200, e_unknown_widget}}
    \cup {Num(7), Num(0), NaN}

BaseNames ==
    { <<"b", "e", "a", "m", "e">>,
      <<"B", "l", "a", "m", "e">>,
      <<"b", "a", "c", "i">>,
      <<"b", "a", "i", "0", "3">>,
      <<"i", "c", "a", "b", "m">>,
      <<"i", "c", "a", "b", "h">>,
      <<"c", "o", "m", "b", "o">>,
      <<"i", "c", "a", "b">>,
      <<"w", "i", "d">>,
      <<"w", "-", "i", "d">>,
      <<"B", "A", "C", "-", "I">>,
      <<"I", "_", "C", "A", "B", " ", "H">>,
      <<"i", "c", " ", "a", "b", " ", "m">>,
      <<"\t", "B", "a", " ", "c", "i">>,
      <<"c", "o", "m", "_", "b", "o">>,
      <<"b", "a", "c", "i", "c", "o", "m", "b", "o">>,
      <<"W", " ", "I", "D", " ">> }

\* the override tables the second pass can run with: keys are trimmed names
\* the default rules do not classify, values are categories
OverrideTables ==
    { {} }
    \cup { {[key |-> strip(s), val |-> "BEAME"]} :
             s \in {x \in BaseNames : classify_device_type(Str(x)) = "None"} }

separators == {"-", "_", " "}

insert_at(s, pos, c) == SubSeq(s, 1, pos) \o <<c>> \o SubSeq(s, pos + 1, Len(s))
delete_at(s, pos) == SubSeq(s, 1, pos - 1) \o SubSeq(s, pos + 1, Len(s))
swap_case(c) == IF c \in DOMAIN LowerOf THEN LowerOf[c]
                ELSE IF c \in DOMAIN UpperOf THEN UpperOf[c] ELSE c

RulesInit ==
    /\ pc = "respell"
    /\ cdev \in RuleInputs
    /\ cvar = cdev
    /\ edits = 0
    /\ cres = NoResults
    /\ unknown_device_mappings = {}
    /\ workbook = <<>> /\ sheet_i = 1 /\ processed_sheets = <<>> /\ first_pass_sheets = <<>>
    /\ unknown_devices_set = {} /\ submitted = FALSE /\ warnings = {}

RespellInit ==
    /\ pc = "respell"
    /\ cdev \in {Str(s) : s \in BaseNames}
    /\ cvar = cdev
    /\ edits = 0
    /\ cres = NoResults
    /\ unknown_device_mappings \in OverrideTables
    /\ workbook = <<>> /\ sheet_i = 1 /\ processed_sheets = <<>> /\ first_pass_sheets = <<>>
    /\ unknown_devices_set = {} /\ submitted = FALSE /\ warnings = {}

Respelled(s) ==
    /\ cvar' = Str(s)
    /\ edits' = edits + 1
    /\ UNCHANGED <<pc, cdev, cres, unknown_device_mappings, scriptVars>>

InsertSeparator ==
    /\ pc = "respell" /\ edits < MaxEdits
    /\ \E pos \in 0..Len(cvar.s), c \in separators : Respelled(insert_at(cvar.s, pos, c))

DeleteSeparator ==
    /\ pc = "respell" /\ edits < MaxEdits
    /\ \E pos \in 1..Len(cvar.s) :
        cvar.s[pos] \in separators /\ Respelled(delete_at(cvar.s, pos))

ChangeCase ==
    /\ pc = "respell" /\ edits < MaxEdits
    /\ \E pos \in 1..Len(cvar.s) :
        /\ swap_case(cvar.s[pos]) # cvar.s[pos]
        /\ Respelled([cvar.s EXCEPT ![pos] = swap_case(@)])

\* both classifiers applied to the value and to its respelling
Classify ==
    /\ pc = "respell"
    /\ cres' = [dev |-> classify_device_type(cdev),
                var |-> classify_device_type(cvar),
                dev_overrides |->
                    classify_device_type_with_overrides(unknown_device_mappings, cdev),
                var_overrides |->
                    classify_device_type_with_overrides(unknown_device_mappings, cvar)]
    /\ pc' = "classified"
    /\ UNCHANGED <<cdev, cvar, edits, unknown_device_mappings, scriptVars>>

SpecRules == RulesInit /\ [][Classify]_vars

RespellNext == InsertSeparator \/ DeleteSeparator \/ ChangeCase \/ Classify

SpecRespell == RespellInit /\ [][RespellNext]_vars

-----------------------------------------------------------------------------
(* Claims about the classifiers *)

\* the rules of the classifier in their order: a rule matches a normalized
\* name that contains one of `any` and none of `but`
RuleTable ==
    << [any |-> {kw_beame, kw_blame}, but |-> {}, cat |-> "BEAME"],
       [any |-> {kw_baci, kw_bai03}, but |-> {}, cat |-> "BAC-I"],
       [any |-> {kw_icabm}, but |-> {}, cat |-> "I-CAB M"],
       [any |-> {kw_icabh}, but |-> {}, cat |-> "I-CAB H"],
       [any |-> {kw_combo}, but |-> {kw_baci}, cat |-> "I-CAB"],
       [any |-> {kw_icab}, but |-> {}, cat |-> "I-CAB"] >>

RuleMatches(r, norm) ==
    /\ \E w \in RuleTable[r].any : contains(norm, w)
    /\ \A w \in RuleTable[r].but : ~contains(norm, w)

FirstMatch(norm) ==
    LET hits == {r \in 1..Len(RuleTable) : RuleMatches(r, norm)}
    IN  IF hits = {} THEN "None"
        ELSE RuleTable[CHOOSE r \in hits : \A o \in hits : r <= o].cat

\* C4: classify_device_type returns the category of the first rule, in the
\* order BEAME, BAC-I, I-CAB M, I-CAB H, combo-without-baci, I-CAB, that
\* matches the normalized name, and unclassified when none does; a name with
\* both 'baci' and 'combo' and neither 'beame' nor 'blame' is BAC-I; a value
\* that is no text is unclassified; the spec's four examples come out as
\* BAC-I, I-CAB, I-CAB H and unclassified.
C4_FirstMatchingRule ==
    pc = "classified" =>
        /\ cdev.k = "str" => cres.dev = FirstMatch(normalize(cdev.s))
        /\ cdev.k # "str" => cres.dev = "None"
        /\ ( /\ cdev.k = "str"
             /\ contains(normalize(cdev.s), kw_baci)
             /\ contains(normalize(cdev.s), kw_combo)
             /\ ~contains(normalize(cdev.s), kw_beame)
             /\ ~contains(normalize(cdev.s), kw_blame) ) => cres.dev = "BAC-I"
        /\ cdev = Str(e_BACI_Combo_Unit) => cres.dev = "BAC-I"
        /\ cdev = Str(e_COMBO_X200) => cres.dev = "I-CAB"
        /\ cdev = Str(e_ICAB_H200) => cres.dev = "I-CAB H"
        /\ cdev = Str(e_unknown_widget) => cres.dev = "None"

\* C4's case: a name with 'combo' ahead of 'baci' has been classified BAC-I
C4_Witness ==
    /\ pc = "classified"
    /\ cdev.k = "str"
    /\ startswith(normalize(cdev.s), kw_combo)
    /\ contains(normalize(cdev.s), kw_baci)
    /\ cres.dev = "BAC-I"

\* C5 as stated: the respelling gets the same result from classify, for the
\* default classifier and for the override-aware one alike.
C5_SameResultBothClassifiers ==
    pc = "classified" =>
        /\ cres.var = cres.dev
        /\ cres.var_overrides = cres.dev_overrides

\* C5 amended: the default classifier gives a name and its respelling the
\* same result; the override-aware classifier does so when the trimmed text
\* of neither is a key of the override table, and otherwise returns for each
\* what the table holds for its own trimmed text.
C5_SameResultDefaultRules ==
    pc = "classified" =>
        /\ cres.var = cres.dev
        /\ ( /\ ~has_key(unknown_device_mappings, strip(cdev.s))
             /\ ~has_key(unknown_device_mappings, strip(cvar.s)) )
           => cres.var_overrides = cres.dev_overrides
        /\ has_key(unknown_device_mappings, strip(cvar.s))
           => cres.var_overrides = get(unknown_device_mappings, strip(cvar.s))

\* C5's case: a classified name and a respelling two steps away from it
C5_Witness ==
    /\ pc = "classified"
    /\ edits >= 2
    /\ normalize(cvar.s) = normalize(cdev.s)
    /\ cvar.s # cdev.s
    /\ lower(cvar.s) # lower(cdev.s)
    /\ cres.dev \in Categories
    /\ cres.var = cres.dev

-----------------------------------------------------------------------------
(* Claims about the sheets and the script.  Sheet k of the workbook went   *)
(* in as workbook[k].df and came out as processed_sheets[k].df.            *)

is_maintenance(k) == lower(strip(workbook[k].name)) = t_maintenance

\* sheet k as process_flexible_sheet sees it: the frame after the cleaning of
\* the columns, the columns found, whether the aggregation was reached, and
\* the customer, device and quantity of each row (customer forward-filled)
sheet_view(k) ==
    LET clean == clean_columns(workbook[k].df)
        map == find_columns(clean)
        read == ~is_maintenance(k) /\ nrows(workbook[k].df) > 0
        agg == read /\ all_found(map)
    IN  [ clean |-> clean,
          map |-> map,
          aggregated |-> agg,
          unresolved |-> read /\ ~all_found(map),
          n |-> IF agg THEN nrows(clean) ELSE 0,
          customer |-> IF agg THEN ffill(column(clean, map.customer)) ELSE <<>>,
          device |-> IF agg THEN [i \in 1..nrows(clean) |-> at(clean, i, map.device)] ELSE <<>>,
          qty |-> IF agg THEN [i \in 1..nrows(clean) |-> int_or_zero(at(clean, i, map.qty))]
                  ELSE <<>> ]

\* row i opens a CustomerGroup: a maximal run of rows with one filled customer
opens_run(v, i) ==
    /\ v.customer[i] # NaN
    /\ (i = 1 \/ v.customer[i - 1] # v.customer[i])

\* the rows of the run that row i opens
run_of(v, i) == {j \in i..v.n : \A x \in i..j : v.customer[x] = v.customer[i]}

\* row i is the first row of its customer: the row the code writes the totals on
first_of_customer(v, i) ==
    /\ v.customer[i] # NaN
    /\ \A j \in 1..(i - 1) : v.customer[j] # v.customer[i]

\* the rows of the group of the customer of row i
group_of(v, i) == {j \in 1..v.n : v.customer[j] = v.customer[i]}

is_blank(cell) == cell = Blank \/ cell = NaN

\* the cells of row i of a processed frame: customer, NEW QTY, the five totals
customer_cell(v, df, i) == at(df, i, v.map.customer)
new_qty_cell(df, i) == at(df, i, Str(t_NEW_QTY))
total_cell(df, i, cat) == at(df, i, Str(cat_label(cat)))
totals_sum(df, i) == sum([c \in 1..Len(categories) |-> total_cell(df, i, categories[c]).n])

\* the classifier the pass that produced processed_sheets ran with
pass_func == IF pc \in {"first_pass", "collect", "form", "submitted"}
                \/ (pc \in {"output", "done"} /\ ~submitted)
             THEN "classify_device_type" ELSE "classify_device_type_with_overrides"

\* what the rows of a set add to a category under a classifier
rows_total(v, rows, func, m, cat) ==
    sum([i \in 1..v.n |->
            IF i \in rows /\ classify_func(func, m, v.device[i]) = cat THEN v.qty[i] ELSE 0])

\* C1: in every run of N > 1 rows of a processed sheet, the first row keeps a
\* non-blank customer cell and the other N-1 rows have it blank.
C1_OneLabelPerRun ==
    \A k \in 1..Len(processed_sheets) :
        LET v == sheet_view(k)
            out == processed_sheets[k].df
        IN  \A i \in 1..v.n :
                (opens_run(v, i) /\ Cardinality(run_of(v, i)) > 1) =>
                    /\ ~is_blank(customer_cell(v, out, i))
                    /\ \A j \in run_of(v, i) \ {i} : is_blank(customer_cell(v, out, j))

\* C2: on the first row of every run NEW QTY is the integer sum of the five
\* category cells of the row; on the other rows of the run NEW QTY and the
\* five cells are blank.
C2_NewQtyIsSum ==
    \A k \in 1..Len(processed_sheets) :
        LET v == sheet_view(k)
            out == processed_sheets[k].df
        IN  \A i \in 1..v.n :
                opens_run(v, i) =>
                    /\ new_qty_cell(out, i).k = "num"
                    /\ \A cat \in Categories : total_cell(out, i, cat).k = "num"
                    /\ new_qty_cell(out, i).n = totals_sum(out, i)
                    /\ \A j \in run_of(v, i) \ {i} :
                           /\ is_blank(new_qty_cell(out, j))
                           /\ \A cat \in Categories : is_blank(total_cell(out, j, cat))

\* the part of C2 that holds of every sheet: NEW QTY is the sum of the five
\* totals on the first row of each group as the code forms the groups (one
\* per customer value), and blank with the totals on every other row
NewQtyIsSumPerCustomer ==
    \A k \in 1..Len(processed_sheets) :
        LET v == sheet_view(k)
            out == processed_sheets[k].df
        IN  \A i \in 1..v.n :
                IF first_of_customer(v, i)
                THEN new_qty_cell(out, i) = Num(totals_sum(out, i))
                ELSE /\ new_qty_cell(out, i) = Blank
                     /\ \A cat \in Categories : total_cell(out, i, cat) = Blank

\* C8: each run is a group of its own: the five totals on its first row count
\* the quantities of the rows of that run and of no other row.
C8_TotalsPerRun ==
    \A k \in 1..Len(processed_sheets) :
        LET v == sheet_view(k)
            out == processed_sheets[k].df
        IN  \A i \in 1..v.n :
                opens_run(v, i) =>
                    \A cat \in Categories :
                        total_cell(out, i, cat) =
                            Num(rows_total(v, run_of(v, i), pass_func,
                                           unknown_device_mappings, cat))

\* C6: a sheet with an unresolved role comes back as it went in, same rows,
\* same labels, same columns, and the caller is told it was skipped.
C6_UnresolvedPassesThrough ==
    \A k \in 1..Len(processed_sheets) :
        sheet_view(k).unresolved =>
            /\ processed_sheets[k].df = workbook[k].df
            /\ \E w \in warnings : w.sheet = workbook[k].name

\* C7: no sheet's content raises an error, and the output step is reached
\* with one processed table per sheet of the workbook.
C7_NothingRaises ==
    /\ pc # "raised"
    /\ pc \in {"output", "done"} => Len(processed_sheets) = Len(workbook)

first_label_with(df, word) ==
    LET hits == {j \in 1..ncols(df) : contains(lower(strip(df.cols[j].s)), word)}
    IN  IF hits = {} THEN NoCol ELSE df.cols[CHOOSE j \in hits : \A o \in hits : j <= o]

\* C9: each role is bound to the first column, in column order, whose label
\* contains its keyword, the three roles tested independently of each other.
C9_FirstMatchingColumn ==
    \A k \in 1..Len(processed_sheets) :
        LET v == sheet_view(k)
            firsts == <<first_label_with(v.clean, t_customer),
                        first_label_with(v.clean, t_device),
                        first_label_with(v.clean, t_qty)>>
        IN  v.aggregated =>
                /\ <<v.map.customer, v.map.device, v.map.qty>> = firsts
                /\ SubSeq(processed_sheets[k].df.cols, 1, 3) = firsts

\* the second pass has run over every sheet, every reported device having
\* been given a category by the operator
all_resolved_second_pass ==
    /\ pc \in {"output", "done"}
    /\ submitted
    /\ Len(processed_sheets) = Len(workbook)
    /\ \A d \in unknown_devices_set :
           has_key(unknown_device_mappings, d) /\ get(unknown_device_mappings, d) \in Categories

\* the device of row i is a name the default rules leave unclassified
unclassified_device(v, i) ==
    /\ v.device[i].k = "str"
    /\ v.device[i].s # <<>>
    /\ classify_device_type(v.device[i]) = "None"

\* what the formerly unclassified rows of a set add to a category in phase 2
overridden_total(v, rows, cat) ==
    sum([i \in 1..v.n |->
            IF /\ i \in rows
               /\ unclassified_device(v, i)
               /\ classify_device_type_with_overrides(unknown_device_mappings, v.device[i]) = cat
            THEN v.qty[i] ELSE 0])

\* the totals of phase 2 on a first row are those of phase 1 plus what the
\* formerly unclassified rows of the group add
totals_grow_by_overrides(v, k, i) ==
    \A cat \in Categories :
        total_cell(processed_sheets[k].df, i, cat).n =
            total_cell(first_pass_sheets[k].df, i, cat).n
            + overridden_total(v, group_of(v, i), cat)

\* C3: with every reported device mapped, phase 2 leaves what the devices
\* classified in phase 1 add to each total as it was, and every row with a
\* device unclassified in phase 1 and a quantity > 0 adds its quantity to the
\* category chosen for the device.
C3_OverridesOnlyAdd ==
    all_resolved_second_pass =>
        \A k \in 1..Len(processed_sheets) :
            LET v == sheet_view(k)
            IN  \A i \in 1..v.n :
                    /\ (v.customer[i] # NaN /\ unclassified_device(v, i) /\ v.qty[i] > 0)
                       => classify_device_type_with_overrides(
                              unknown_device_mappings, v.device[i]) \in Categories
                    /\ first_of_customer(v, i) => totals_grow_by_overrides(v, k, i)

\* the part of C3 that holds of every sheet: the totals of phase 2 are those
\* of phase 1 plus the quantities of the rows whose trimmed device name the
\* override table maps to the category
OverridesAddToTotals ==
    all_resolved_second_pass =>
        \A k \in 1..Len(processed_sheets) :
            LET v == sheet_view(k)
            IN  \A i \in 1..v.n : first_of_customer(v, i) => totals_grow_by_overrides(v, k, i)

\* C10: the second pass runs only once the first pass has gone over every
\* sheet, the unknown-device set is non-empty and the form was submitted;
\* while it runs, the override table holds only the five categories, and the
\* override-aware classifier returns a category or unclassified for every
\* cell of the workbook.
C10_SecondPassAfterSubmit ==
    pc = "second_pass" =>
        /\ Len(first_pass_sheets) = Len(workbook)
        /\ unknown_devices_set # {}
        /\ submitted
        /\ \A e \in unknown_device_mappings : e.val \in Categories
        /\ \A k \in 1..Len(workbook) :
               \A i \in 1..nrows(workbook[k].df) :
                   \A j \in 1..ncols(workbook[k].df) :
                       classify_device_type_with_overrides(
                           unknown_device_mappings, workbook[k].df.rows[i][j])
                           \in Categories \cup {"None"}

\* C10's case: the second pass is running, the operator having left one
\* reported device unselected and chosen a category for another
C10_Witness ==
    /\ pc = "second_pass"
    /\ sheet_i > 1
    /\ \E d \in unknown_devices_set : ~has_key(unknown_device_mappings, d)
    /\ \E d \in unknown_devices_set : has_key(unknown_device_mappings, d)

====
